---- MODULE Spec2Model ----
(***************************************************************************)
(* Model of the Telegram PDF banner replacer bot (src/main.py).            *)
(*                                                                         *)
(* Part 1: Python float (IEEE-754 binary64, round-to-nearest-even)         *)
(*         arithmetic as used by the fit computation, on exact dyadic      *)
(*         numbers held as digit sequences.                                *)
(* Part 2: the pure pipeline of one render: size extraction, fit, resize.  *)
(* Part 3: the bot: handlers, the temp directory, in-flight invocations.   *)
(***************************************************************************)
EXTENDS Integers, Sequences, FiniteSets, TLC

VARIABLES
    awaiting,   \* awaiting_banner: the chat ids mapped to True (line 48)
    fs,         \* the files under BANNER_DIR and TMP_DIR, by path
    tasks,      \* handler invocations suspended at an await, by worker slot
    nupd,       \* number of updates dispatched so far
    sent,       \* the last message the bot sent: a reply or a document
    credit,     \* per chat: /setbanner commands handled minus banner files written
    fbox,       \* FitSpec: MediaBox [llx, lly, urx, ury] of the first page
    fimg,       \* FitSpec: img.size = <<iw, ih>>
    fpc,        \* FitSpec: position in the render pipeline
    fsize,      \* FitSpec: <<width_pt, height_pt>> (integers, exact as floats)
    ffit,       \* FitSpec: locals ratio, new_w, new_h, x, y of lines 136-140
    ferr        \* FitSpec: the exception raised, "" when none

botvars == <<awaiting, fs, tasks, nupd, sent, credit>>

fitvars == <<fbox, fimg, fpc, fsize, ffit, ferr>>

vars == <<awaiting, fs, tasks, nupd, sent, credit, fbox, fimg, fpc, fsize, ffit, ferr>>

(***************************************************************************)
(* Part 1. Binary64.                                                       *)
(*                                                                         *)
(* A number is (-1)^neg * m * 2^e with m a natural number held as a        *)
(* sequence of base-2^15 digits, most significant first (a 53-bit          *)
(* significand does not fit a machine integer of the checker). Dyadic      *)
(* numbers of any length are exact; a float is one whose m has exactly     *)
(* MantBits bits, or zero.                                                 *)
(***************************************************************************)

\* Number of significand bits of a Python float (binary64).
MantBits == 53

RECURSIVE Pow2(_)
Pow2(n) == IF n = 0 THEN 1 ELSE 2 * Pow2(n - 1)

\* Bits per digit, and the digit base.
DigitBits == 15
Base == Pow2(DigitBits)

Zeros(n) == [i \in 1..n |-> 0]

Max(a, b) == IF a >= b THEN a ELSE b
Min(a, b) == IF a <= b THEN a ELSE b
Abs(a) == IF a < 0 THEN -a ELSE a

\* Digits of a natural number; 0 is <<>>.
RECURSIVE NatToDigits(_)
NatToDigits(n) == IF n = 0 THEN <<>> ELSE Append(NatToDigits(n \div Base), n % Base)

\* The natural number of a short digit sequence.
RECURSIVE DigitsToNat(_)
DigitsToNat(m) ==
    IF m = <<>> THEN 0
    ELSE Base * DigitsToNat(SubSeq(m, 1, Len(m) - 1)) + m[Len(m)]

RECURSIVE Strip(_)
Strip(m) == IF m # <<>> /\ m[1] = 0 THEN Strip(Tail(m)) ELSE m

PadLeft(m, n) == Zeros(n - Len(m)) \o m

RECURSIVE BitLen(_)
BitLen(n) == IF n = 0 THEN 0 ELSE 1 + BitLen(n \div 2)

\* Number of bits of a stripped digit sequence.
Bits(m) == IF m = <<>> THEN 0 ELSE BitLen(m[1]) + DigitBits * (Len(m) - 1)

\* -1, 0, 1 as a < b, a = b, a > b, for digit sequences of equal length.
RECURSIVE CmpDigits(_, _, _)
CmpDigits(a, b, i) ==
    IF i > Len(a) THEN 0
    ELSE IF a[i] > b[i] THEN 1
    ELSE IF a[i] < b[i] THEN -1
    ELSE CmpDigits(a, b, i + 1)

\* a + b for equal lengths, from the least significant digit, one digit longer.
RECURSIVE AddDigits(_, _, _, _, _)
AddDigits(a, b, i, carry, acc) ==
    IF i = 0 THEN <<carry>> \o acc
    ELSE LET t == a[i] + b[i] + carry
         IN  AddDigits(a, b, i - 1, t \div Base, <<t % Base>> \o acc)

\* a - b for equal lengths and a >= b.
RECURSIVE SubDigits(_, _, _, _, _)
SubDigits(a, b, i, borrow, acc) ==
    IF i = 0 THEN acc
    ELSE LET t == a[i] - b[i] - borrow
         IN  IF t < 0 THEN SubDigits(a, b, i - 1, 1, <<t + Base>> \o acc)
                      ELSE SubDigits(a, b, i - 1, 0, <<t>> \o acc)

\* a * n for a natural n < Base, from the least significant digit.
RECURSIVE MulDigits(_, _, _, _, _)
MulDigits(a, n, i, carry, acc) ==
    IF i = 0 THEN <<carry>> \o acc
    ELSE LET t == a[i] * n + carry
         IN  MulDigits(a, n, i - 1, t \div Base, <<t % Base>> \o acc)

MulSmall(m, n) == Strip(MulDigits(m, n, Len(m), 0, <<>>))

\* Schoolbook division by a natural 0 < n < Base: quotient digits and remainder.
RECURSIVE DivDigits(_, _, _, _, _)
DivDigits(a, n, i, rem, q) ==
    IF i > Len(a) THEN [q |-> Strip(q), r |-> rem]
    ELSE LET t == rem * Base + a[i]
         IN  DivDigits(a, n, i + 1, t % n, Append(q, t \div n))

DivSmall(m, n) == DivDigits(m, n, 1, 0, <<>>)

\* m * 2^s
ShiftLeft(m, s) ==
    IF m = <<>> THEN m
    ELSE MulSmall(m, Pow2(s % DigitBits)) \o Zeros(s \div DigitBits)

\* floor(m / 2^s), and whether anything nonzero was shifted out.
ShiftRight(m, s) ==
    LET whole == s \div DigitBits
        kept  == SubSeq(m, 1, Len(m) - whole)
        d     == DivSmall(kept, Pow2(s % DigitBits))
    IN  [q |-> d.q,
         lost |-> d.r # 0 \/ \E i \in (Len(m) - whole + 1)..Len(m) : i >= 1 /\ m[i] # 0]

\* m + 1
RECURSIVE IncDigits(_, _)
IncDigits(a, i) ==
    IF i = 0 THEN <<1>> \o a
    ELSE IF a[i] < Base - 1 THEN [a EXCEPT ![i] = a[i] + 1]
    ELSE IncDigits([a EXCEPT ![i] = 0], i - 1)

DZero == [neg |-> FALSE, m |-> <<>>, e |-> 0]

DNorm(neg, m, e) ==
    LET s == Strip(m)
    IN  IF s = <<>> THEN DZero ELSE [neg |-> neg, m |-> s, e |-> e]

DInt(n) == DNorm(n < 0, NatToDigits(Abs(n)), 0)

DNeg(d) == IF d.m = <<>> THEN d ELSE [d EXCEPT !.neg = ~d.neg]

DAbs(d) == [d EXCEPT !.neg = FALSE]

\* d * 2^k
DScale(d, k) == IF d.m = <<>> THEN d ELSE [d EXCEPT !.e = d.e + k]

DSign(d) == IF d.m = <<>> THEN 0 ELSE IF d.neg THEN -1 ELSE 1

\* Signed sum of two magnitudes of equal length at one exponent.
AddAligned(an, bn, A, B, e) ==
    IF an = bn THEN DNorm(an, AddDigits(A, B, Len(A), 0, <<>>), e)
    ELSE IF CmpDigits(A, B, 1) = 0 THEN DZero
    ELSE IF CmpDigits(A, B, 1) > 0 THEN DNorm(an, SubDigits(A, B, Len(A), 0, <<>>), e)
    ELSE DNorm(bn, SubDigits(B, A, Len(A), 0, <<>>), e)

AddShifted(an, bn, A0, B0, e) ==
    AddAligned(an, bn, PadLeft(A0, Max(Len(A0), Len(B0))),
               PadLeft(B0, Max(Len(A0), Len(B0))), e)

DAdd(a, b) ==
    IF a.m = <<>> THEN b
    ELSE IF b.m = <<>> THEN a
    ELSE AddShifted(a.neg, b.neg,
                    ShiftLeft(a.m, a.e - Min(a.e, b.e)),
                    ShiftLeft(b.m, b.e - Min(a.e, b.e)),
                    Min(a.e, b.e))

DSub(a, b) == DAdd(a, DNeg(b))

DLeq(a, b) == DSign(DSub(a, b)) <= 0

DEq(a, b) == DSign(DSub(a, b)) = 0

\* d * n for an integer |n| < Base.
DMulInt(d, n) ==
    IF n = 0 THEN DZero ELSE DNorm(d.neg # (n < 0), MulSmall(d.m, Abs(n)), d.e)

FZero == DZero

\* Round an exact value (plus a sticky remainder below its last bit) to the
\* nearest float, ties to even.
\* m0 is the significand cut to MantBits bits, guard the first bit cut off,
\* rest whether any later bit is set.
RoundUp(m0, guard, rest) ==
    IF guard = 1 /\ (rest \/ m0[Len(m0)] % 2 = 1) THEN IncDigits(m0, Len(m0)) ELSE m0

\* A carry out of the top bit leaves 2^MantBits: halve it.
Renorm(neg, m1, e) ==
    IF Bits(m1) > MantBits
    THEN [neg |-> neg, m |-> DivSmall(m1, 2).q, e |-> e + 1]
    ELSE [neg |-> neg, m |-> m1, e |-> e]

\* s is the magnitude cut to MantBits + 1 bits: the last bit is the guard.
RoundCut(neg, s, sticky, e) ==
    Renorm(neg, RoundUp(DivSmall(s.q, 2).q, s.q[Len(s.q)] % 2, sticky \/ s.lost), e)

Round(d, sticky) ==
    IF d.m = <<>> THEN FZero
    ELSE IF Bits(d.m) <= MantBits
    THEN [neg |-> d.neg, m |-> ShiftLeft(d.m, MantBits - Bits(d.m)),
          e |-> d.e - (MantBits - Bits(d.m))]
    ELSE RoundCut(d.neg, ShiftRight(d.m, Bits(d.m) - MantBits - 1), sticky,
                  d.e + (Bits(d.m) - MantBits))

\* float(n) for an int n.
FInt(n) == Round(DInt(n), FALSE)

\* a / n for a float a and an int 0 < n < Base (the int converts exactly).
RoundQuotient(neg, r, e) == Round(DNorm(neg, r.q, e), r.r # 0)

FDivInt(a, n) ==
    IF a.m = <<>> THEN FZero
    ELSE RoundQuotient(a.neg, DivSmall(ShiftLeft(a.m, BitLen(n) + 2), n),
                       a.e - (BitLen(n) + 2))

\* n * a for an int n and a float a.
FMulInt(n, a) == Round(DMulInt(a, n), FALSE)

\* a - b
FSub(a, b) == Round(DSub(a, b), FALSE)

\* a / 2 (exact: no underflow in the range of page sizes)
FHalf(a) == DScale(a, -1)

\* Python min(a, b): b only when b < a.
FMin(a, b) == IF DLeq(a, b) THEN a ELSE b

\* int(a): truncation toward zero.
FTrunc(a) ==
    LET n == IF a.e >= 0 THEN DigitsToNat(ShiftLeft(a.m, a.e))
             ELSE IF -a.e >= Bits(a.m) THEN 0
             ELSE DigitsToNat(ShiftRight(a.m, -a.e).q)
    IN  IF a.neg THEN -n ELSE n

(***************************************************************************)
(* Part 2. One render: first-page size, fit, resize.                       *)
(***************************************************************************)

\* Largest of the small image dimensions enumerated.
MaxSmallDim == 3

\* Pixel dimensions of decodable images (PIL sizes are positive integers).
ImgDims == (1..MaxSmallDim) \cup {23, 37, 500, 1000}

\* Corners of first-page boxes: integer coordinates, in points.
Corners == {<<0, 0>>, <<612, 792>>, <<595, 842>>, <<0, 792>>, <<792, 792>>}

\* MediaBox values [llx, lly, urx, ury], either corner first, degenerate included.
Boxes == {<<p[1], p[2], q[1], q[2]>> : p \in Corners, q \in Corners}

\* Mutant: the coordinate differences without abs().
first_page_size_signed(mbox) == <<mbox[3] - mbox[1], mbox[4] - mbox[2]>>

\* width_pt, height_pt of lines 159-161. float() of an integer coordinate and
\* the difference of two such are exact, so the two are kept as integers.
first_page_size(mbox) ==
    LET llx == mbox[1]
        lly == mbox[2]
        urx == mbox[3]
        ury == mbox[4]
    IN  <<Abs(urx - llx), Abs(ury - lly)>>

NoFit == [ratio |-> FZero, new_w |-> FZero, new_h |-> FZero, x |-> FZero, y |-> FZero]

\* Mutant: the margins not halved, so the image is not centred.
fit_offsets_unhalved(width_pt, height_pt, ratio, new_w, new_h) ==
    [ratio |-> ratio,
     new_w |-> new_w,
     new_h |-> new_h,
     x     |-> FSub(width_pt, new_w),
     y     |-> FSub(height_pt, new_h)]

\* Lines 139-140.
fit_offsets(width_pt, height_pt, ratio, new_w, new_h) ==
    [ratio |-> ratio,
     new_w |-> new_w,
     new_h |-> new_h,
     x     |-> FHalf(FSub(width_pt, new_w)),
     y     |-> FHalf(FSub(height_pt, new_h))]

\* Lines 137-138.
fit_scaled(iw, ih, width_pt, height_pt, ratio) ==
    fit_offsets(width_pt, height_pt, ratio, FMulInt(iw, ratio), FMulInt(ih, ratio))

\* Mutant: max in place of min, which covers the page instead of fitting it.
fit_ratio_max(iw, ih, width_pt, height_pt) ==
    IF DLeq(FDivInt(width_pt, iw), FDivInt(height_pt, ih))
    THEN FDivInt(height_pt, ih)
    ELSE FDivInt(width_pt, iw)

\* Line 136.
fit_ratio(iw, ih, width_pt, height_pt) ==
    FMin(FDivInt(width_pt, iw), FDivInt(height_pt, ih))

\* Lines 136-140: no validation of the four dimensions precedes the arithmetic.
fit(iw, ih, width_pt, height_pt) ==
    fit_scaled(iw, ih, FInt(width_pt), FInt(height_pt),
               fit_ratio(iw, ih, FInt(width_pt), FInt(height_pt)))

\* Line 144: the size handed to Image.resize.
resize_dims(f) == <<FTrunc(f.new_w), FTrunc(f.new_h)>>

\* Image.resize raises ValueError unless both dimensions are at least 1.
resize_ok(f) == resize_dims(f)[1] >= 1 /\ resize_dims(f)[2] >= 1

(***************************************************************************)
(* Part 3. The bot.                                                        *)
(*                                                                         *)
(* Handlers are coroutines on one event loop: a handler runs alone from    *)
(* one await that suspends to the next. create_banner_pdf_from_image and   *)
(* replace_first_page_with_banner contain no suspending await, so each     *)
(* runs to its end inside the step that resumes handle_pdf_message after   *)
(* the download. download_media moves the finished file to its path and    *)
(* returns in the same step.                                               *)
(***************************************************************************)

\* Updates dispatched in one run.
MaxUpdates == 3

\* Handler invocations that may be suspended at once (dispatcher workers).
MaxInflight == 2

Chats == {1, 2}

MsgIds == {1, 2, 3}

Slots == 1..MaxInflight

\* Images: pixel size and encoding. Image 2 is one pixel wide.
NoImg == [id |-> 0, w |-> 0, h |-> 0, fmt |-> ""]
ImgWide == [id |-> 1, w |-> 1000, h |-> 500, fmt |-> "JPEG"]
ImgThin == [id |-> 2, w |-> 1, h |-> 1000, fmt |-> "PNG"]

\* A page of a source document: its MediaBox and its content, named by
\* (document, page number).
SrcPage(d, n, box) == [box |-> box, doc |-> d, no |-> n, img |-> NoImg, draw |-> <<>>]

DocA == <<SrcPage(1, 1, <<0, 0, 612, 792>>),
          SrcPage(1, 2, <<0, 0, 612, 792>>),
          SrcPage(1, 3, <<0, 0, 792, 612>>)>>
DocB == <<SrcPage(2, 1, <<595, 842, 0, 0>>)>>
DocEmpty == <<>>

\* Files.
NoFile == [kind |-> "none", img |-> NoImg, pages |-> <<>>]
ImgFile(i) == [kind |-> "img", img |-> i, pages |-> <<>>]
PdfFile(pp) == [kind |-> "pdf", img |-> NoImg, pages |-> pp]
JunkFile == [kind |-> "junk", img |-> NoImg, pages |-> <<>>]
PartialFile == [kind |-> "partial", img |-> NoImg, pages |-> <<>>]

\* The messages of each chat, by message id: what kind of message it is and
\* the file it carries. Message ids are per chat, so the same id names
\* different messages in different chats.
Inbox(c, m) ==
    CASE c = 1 /\ m = 1 -> [kind |-> "document", mime |-> "application/pdf", file |-> PdfFile(DocA)]
      [] c = 1 /\ m = 2 -> [kind |-> "photo", mime |-> "", file |-> ImgFile(ImgWide)]
      [] c = 1 /\ m = 3 -> [kind |-> "document", mime |-> "application/pdf", file |-> PdfFile(DocEmpty)]
      [] c = 2 /\ m = 1 -> [kind |-> "document", mime |-> "application/pdf", file |-> PdfFile(DocB)]
      [] c = 2 /\ m = 2 -> [kind |-> "document", mime |-> "image/png", file |-> ImgFile(ImgThin)]
      [] OTHER          -> [kind |-> "document", mime |-> "image/jpeg", file |-> JunkFile]

\* Paths, as their components.
banner_path_for_chat(chat_id) == <<"banners", chat_id, "banner.png">>
tmp_banner(message_id) == <<"tmp", message_id, "_banner">>
tmp_orig(message_id) == <<"tmp", message_id, "_orig.pdf">>
\* Mutant: the output written over the downloaded original.
tmp_out_in_place(message_id) == <<"tmp", message_id, "_orig.pdf">>

tmp_out(message_id) == <<"tmp", message_id, "_out.pdf">>
basename(path) == path[Len(path)]
banner_pdf_tmp(banner_img_path) == <<"tmp", "banner_", basename(banner_img_path), ".pdf">>

Paths ==
    {banner_path_for_chat(c) : c \in Chats}
    \cup {tmp_banner(m) : m \in MsgIds}
    \cup {tmp_orig(m) : m \in MsgIds}
    \cup {tmp_out(m) : m \in MsgIds}
    \cup {banner_pdf_tmp(banner_path_for_chat(c)) : c \in Chats}

exists(path) == fs[path].kind # "none"

\* Line 120: the image re-encoded as an RGBA PNG, pixels and size kept.
save_png(i) == [i EXCEPT !.fmt = "PNG"]

\* Mutant: the page size given as (height, width).
BannerPageTransposed(i, width_pt, height_pt, f) ==
    [box |-> <<0, 0, height_pt, width_pt>>, doc |-> 0, no |-> 0, img |-> i,
     draw |-> <<f.x, f.y, f.new_w, f.new_h>>]

\* The page drawn by lines 131-148: the page box, and the image at its placement.
BannerPage(i, width_pt, height_pt, f) ==
    [box |-> <<0, 0, width_pt, height_pt>>, doc |-> 0, no |-> 0, img |-> i,
     draw |-> <<f.x, f.y, f.new_w, f.new_h>>]

\* Lines 142-148, with the placement f of lines 136-140. The canvas writes its
\* file only at save().
draw_banner(f0, img, out_pdf_path, width_pt, height_pt, f) ==
    IF ~resize_ok(f) THEN [fs |-> f0, err |-> "height and width must be > 0"]
    ELSE [fs  |-> [f0 EXCEPT ![out_pdf_path] =
                      PdfFile(<<BannerPage(img, width_pt, height_pt, f)>>)],
          err |-> ""]

\* The fits of the images and first pages of the inbox, computed once.
FitTable ==
    [a \in {<<i.w, i.h, first_page_size(d[1].box)[1], first_page_size(d[1].box)[2]>> :
                i \in {ImgWide, ImgThin}, d \in {DocA, DocB}}
        |-> fit(a[1], a[2], a[3], a[4])]

\* fit, looked up where it is tabulated.
fit_cached(iw, ih, width_pt, height_pt) ==
    IF <<iw, ih, width_pt, height_pt>> \in DOMAIN FitTable
    THEN FitTable[<<iw, ih, width_pt, height_pt>>]
    ELSE fit(iw, ih, width_pt, height_pt)

\* Lines 128-148, on the files f0.
create_banner_pdf_from_image(f0, img_path, out_pdf_path, width_pt, height_pt) ==
    IF f0[img_path].kind # "img" THEN [fs |-> f0, err |-> "cannot open image"]
    ELSE draw_banner(f0, f0[img_path].img, out_pdf_path, width_pt, height_pt,
                     fit_cached(f0[img_path].img.w, f0[img_path].img.h, width_pt, height_pt))

\* Mutant: range(0, n) in place of range(1, n), which keeps the first page.
merge_keeping_first(banner_pages, original_pages) == banner_pages \o original_pages

\* Lines 166-175: the pages written to the output.
merge(banner_pages, original_pages) ==
    banner_pages \o SubSeq(original_pages, 2, Len(original_pages))

\* Lines 166-175, with the outcome r of line 164. save_ok: whether out.save
\* runs to its end; it writes output_pdf_path in place, so a failed save
\* leaves a partial file.
merge_and_save(r, original_pdf_path, banner_tmp, output_pdf_path, save_ok) ==
    IF r.err # "" THEN r
    ELSE IF save_ok
    THEN [fs  |-> [r.fs EXCEPT ![output_pdf_path] =
                      PdfFile(merge(r.fs[banner_tmp].pages, r.fs[original_pdf_path].pages))],
          err |-> ""]
    ELSE [fs |-> [r.fs EXCEPT ![output_pdf_path] = PartialFile], err |-> "write failed"]

\* Mutant: the page-count check left out, so an empty document fails at
\* original.pages[0] instead.
replace_first_page_unchecked(f0, original_pdf_path, banner_img_path, output_pdf_path, save_ok) ==
    LET original == f0[original_pdf_path]
        size     == first_page_size(original.pages[1].box)
    IN  IF original.kind # "pdf" THEN [fs |-> f0, err |-> "cannot open PDF"]
        ELSE IF Len(original.pages) = 0 THEN [fs |-> f0, err |-> "index out of range"]
        ELSE merge_and_save(
                 create_banner_pdf_from_image(f0, banner_img_path,
                                              banner_pdf_tmp(banner_img_path),
                                              size[1], size[2]),
                 original_pdf_path, banner_pdf_tmp(banner_img_path),
                 output_pdf_path, save_ok)

\* Lines 151-175, on the files f0.
replace_first_page_with_banner(f0, original_pdf_path, banner_img_path, output_pdf_path, save_ok) ==
    LET original == f0[original_pdf_path]
        size     == first_page_size(original.pages[1].box)
    IN  IF original.kind # "pdf" THEN [fs |-> f0, err |-> "cannot open PDF"]
        ELSE IF Len(original.pages) = 0 THEN [fs |-> f0, err |-> "PDF has no pages"]
        ELSE merge_and_save(
                 create_banner_pdf_from_image(f0, banner_img_path,
                                              banner_pdf_tmp(banner_img_path),
                                              size[1], size[2]),
                 original_pdf_path, banner_pdf_tmp(banner_img_path),
                 output_pdf_path, save_ok)

\* Messages sent by the bot.
NoSent == [chat |-> 0, kind |-> "", text |-> "", e |-> "", file |-> NoFile]
Reply(c, text) == [chat |-> c, kind |-> "reply", text |-> text, e |-> "", file |-> NoFile]
ReplyErr(c, text, e) == [chat |-> c, kind |-> "reply", text |-> text, e |-> e, file |-> NoFile]
Document(c, file) == [chat |-> c, kind |-> "document", text |-> "Here is your edited PDF", e |-> "", file |-> file]

\* Suspended invocations.
Idle == [h |-> "", chat |-> 0, mid |-> 0, pc |-> "idle"]
Task(h, c, m, pc) == [h |-> h, chat |-> c, mid |-> m, pc |-> pc]
FreeSlots == {i \in Slots : tasks[i].pc = "idle"}
NextSlot == CHOOSE i \in FreeSlots : \A j \in FreeSlots : i <= j

\* The handlers in registration order (lines 67-187), all in one group:
\* the dispatcher runs the first whose filter matches, and no other.
Handlers == <<"start_cmd", "setbanner_cmd", "removebanner_cmd", "status_cmd",
              "receive_image", "process_cmd", "handle_pdf_message">>

\* An update: a command (with the message it replies to, 0 when none) or a
\* media message of the inbox.
Matches(h, u) ==
    CASE h = "start_cmd"          -> u.cmd = "start"
      [] h = "setbanner_cmd"      -> u.cmd = "setbanner"
      [] h = "removebanner_cmd"   -> u.cmd = "removebanner"
      [] h = "status_cmd"         -> u.cmd = "status"
      [] h = "receive_image"      -> u.cmd = "" /\ Inbox(u.chat, u.mid).kind \in {"photo", "document"}
      [] h = "process_cmd"        -> u.cmd = "process" /\ u.reply # 0
      [] h = "handle_pdf_message" -> u.cmd = "" /\ Inbox(u.chat, u.mid).kind = "document"
                                     /\ Inbox(u.chat, u.mid).mime = "application/pdf"

Dispatch(u) ==
    LET hit == {i \in 1..Len(Handlers) : Matches(Handlers[i], u)}
    IN  IF hit = {} THEN ""
        ELSE Handlers[CHOOSE i \in hit : \A j \in hit : i <= j]

Command(c, cmd) == [chat |-> c, cmd |-> cmd, mid |-> 0, reply |-> 0]
Media(c, m) == [chat |-> c, cmd |-> "", mid |-> m, reply |-> 0]
ProcessReply(c, m) == [chat |-> c, cmd |-> "process", mid |-> 0, reply |-> m]

Updates ==
    {Command(c, cmd) : c \in Chats, cmd \in {"start", "setbanner", "removebanner", "status"}}
    \cup {Media(c, m) : c \in Chats, m \in MsgIds}
    \cup {ProcessReply(c, m) : c \in Chats, m \in MsgIds}

\* Lines 67-69.
start_cmd(u) ==
    /\ sent' = Reply(u.chat, "Hello!")
    /\ UNCHANGED <<awaiting, fs, tasks>>

\* Lines 72-76.
setbanner_cmd(u) ==
    /\ awaiting' = awaiting \cup {u.chat}
    /\ sent' = Reply(u.chat, "Okay - send the banner image now")
    /\ UNCHANGED <<fs, tasks>>

\* Mutant: the reply sent without os.remove.
removebanner_cmd_keeping(u) ==
    LET path == banner_path_for_chat(u.chat)
    IN  IF exists(path)
        THEN /\ sent' = Reply(u.chat, "Banner removed for this chat.")
             /\ UNCHANGED <<awaiting, fs, tasks>>
        ELSE /\ sent' = Reply(u.chat, "No banner was set for this chat.")
             /\ UNCHANGED <<awaiting, fs, tasks>>

\* Lines 79-87.
removebanner_cmd(u) ==
    LET path == banner_path_for_chat(u.chat)
    IN  IF exists(path)
        THEN /\ fs' = [fs EXCEPT ![path] = NoFile]
             /\ sent' = Reply(u.chat, "Banner removed for this chat.")
             /\ UNCHANGED <<awaiting, tasks>>
        ELSE /\ sent' = Reply(u.chat, "No banner was set for this chat.")
             /\ UNCHANGED <<awaiting, fs, tasks>>

\* Lines 90-97.
status_cmd(u) ==
    /\ sent' = IF exists(banner_path_for_chat(u.chat))
               THEN Reply(u.chat, "Banner is set for this chat.")
               ELSE Reply(u.chat, "No banner set. Use /setbanner to upload one.")
    /\ UNCHANGED <<awaiting, fs, tasks>>

\* Mutant: the flag popped in every branch, the refusal of a non-image included.
receive_image_popping(u) ==
    LET msg == Inbox(u.chat, u.mid)
    IN  IF u.chat \notin awaiting
        THEN UNCHANGED <<awaiting, fs, tasks, sent>>
        ELSE IF msg.kind = "photo" \/ (msg.kind = "document" /\ msg.mime \in {"image/png", "image/jpeg"})
        THEN /\ tasks' = [tasks EXCEPT ![NextSlot] = Task("receive_image", u.chat, u.mid, "download")]
             /\ UNCHANGED <<awaiting, fs, sent>>
        ELSE /\ sent' = Reply(u.chat, "Please send a PNG or JPG image.")
             /\ awaiting' = awaiting \ {u.chat}
             /\ UNCHANGED <<fs, tasks>>

\* Mutant: the awaiting check left out.
receive_image_unasked(u) ==
    LET msg == Inbox(u.chat, u.mid)
    IN  IF msg.kind = "photo" \/ (msg.kind = "document" /\ msg.mime \in {"image/png", "image/jpeg"})
        THEN /\ tasks' = [tasks EXCEPT ![NextSlot] = Task("receive_image", u.chat, u.mid, "download")]
             /\ UNCHANGED <<awaiting, fs, sent>>
        ELSE /\ sent' = Reply(u.chat, "Please send a PNG or JPG image.")
             /\ UNCHANGED <<awaiting, fs, tasks>>

\* Lines 100-115, up to the download's await.
receive_image(u) ==
    LET msg == Inbox(u.chat, u.mid)
    IN  IF u.chat \notin awaiting
        THEN UNCHANGED <<awaiting, fs, tasks, sent>>
        ELSE IF msg.kind = "photo" \/ (msg.kind = "document" /\ msg.mime \in {"image/png", "image/jpeg"})
        THEN /\ tasks' = [tasks EXCEPT ![NextSlot] = Task("receive_image", u.chat, u.mid, "download")]
             /\ UNCHANGED <<awaiting, fs, sent>>
        ELSE /\ sent' = Reply(u.chat, "Please send a PNG or JPG image.")
             /\ UNCHANGED <<awaiting, fs, tasks>>

\* Lines 192-201, up to the download's await, for the message to process.
handle_pdf_message(c, m) ==
    LET path == banner_path_for_chat(c)
        msg  == Inbox(c, m)
    IN  IF ~exists(path)
        THEN /\ sent' = Reply(c, "No banner set for this chat.")
             /\ UNCHANGED <<awaiting, fs, tasks>>
        ELSE IF msg.kind # "document"
        THEN /\ sent' = ReplyErr(c, "Failed to process PDF", "no document")
             /\ UNCHANGED <<awaiting, fs, tasks>>
        ELSE /\ tasks' = [tasks EXCEPT ![NextSlot] = Task("handle_pdf_message", c, m, "download")]
             /\ UNCHANGED <<awaiting, fs, sent>>

\* Lines 178-184.
process_cmd(u) == handle_pdf_message(u.chat, u.reply)

\* Lines 187-189.
pdf_handler(u) == handle_pdf_message(u.chat, u.mid)

\* The handler the dispatcher starts for the update u, run to its first
\* suspending await or to its end.
Handle(u) ==
    LET h == Dispatch(u)
    IN  CASE h = "start_cmd"          -> start_cmd(u)
          [] h = "setbanner_cmd"      -> setbanner_cmd(u)
          [] h = "removebanner_cmd"   -> removebanner_cmd(u)
          [] h = "status_cmd"         -> status_cmd(u)
          [] h = "receive_image"      -> receive_image(u)
          [] h = "process_cmd"        -> process_cmd(u)
          [] h = "handle_pdf_message" -> pdf_handler(u)
          [] OTHER                    -> UNCHANGED <<awaiting, fs, tasks, sent>>

\* An update arrives and is dispatched. A message may be dispatched more than
\* once: an edit of it comes to the same handlers with the same message_id.
Deliver ==
    \E u \in Updates :
        /\ nupd < MaxUpdates
        /\ FreeSlots # {}
        /\ nupd' = nupd + 1
        /\ Handle(u)
        /\ credit' = IF Dispatch(u) = "setbanner_cmd"
                     THEN [credit EXCEPT ![u.chat] = @ + 1]
                     ELSE credit
        /\ UNCHANGED fitvars

\* Lines 110-125: the banner download ends and receive_image runs to its end.
ImageDownloaded ==
    \E i \in Slots :
        LET t    == tasks[i]
            file == tmp_banner(t.mid)
            f1   == [fs EXCEPT ![file] = Inbox(t.chat, t.mid).file]
            dest == banner_path_for_chat(t.chat)
        IN  /\ t.h = "receive_image" /\ t.pc = "download"
            /\ IF f1[file].kind = "img"
               THEN /\ fs' = [f1 EXCEPT ![dest] = ImgFile(save_png(f1[file].img))]
                    /\ sent' = Reply(t.chat, "Banner saved for this chat.")
                    /\ credit' = [credit EXCEPT ![t.chat] = @ - 1]
               ELSE /\ fs' = f1
                    /\ sent' = ReplyErr(t.chat, "Failed to save banner", "cannot open image")
                    /\ UNCHANGED credit
            /\ awaiting' = awaiting \ {t.chat}
            /\ tasks' = [tasks EXCEPT ![i] = Idle]
            /\ UNCHANGED <<nupd, fitvars>>

\* Mutant: the exception swallowed, no failure reply sent.
SplicedSilently(i, r) ==
    /\ fs' = r.fs
    /\ UNCHANGED sent
    /\ IF r.err = ""
       THEN tasks' = [tasks EXCEPT ![i].pc = "send"]
       ELSE tasks' = [tasks EXCEPT ![i] = Idle]

\* Lines 203-206, with the outcome r of the splice.
Spliced(i, r) ==
    /\ fs' = r.fs
    /\ IF r.err = ""
       THEN /\ tasks' = [tasks EXCEPT ![i].pc = "send"]
            /\ UNCHANGED sent
       ELSE /\ tasks' = [tasks EXCEPT ![i] = Idle]
            /\ sent' = ReplyErr(tasks[i].chat, "Failed to process PDF", r.err)

\* Lines 201-206: the PDF download ends, the splice runs, and the handler
\* suspends at send_document or replies with the failure.
PdfDownloaded ==
    \E i \in Slots, save_ok \in BOOLEAN :
        LET t         == tasks[i]
            path      == banner_path_for_chat(t.chat)
            orig_file == tmp_orig(t.mid)
            out_file  == tmp_out(t.mid)
            f1        == [fs EXCEPT ![orig_file] = Inbox(t.chat, t.mid).file]
        IN  /\ t.h = "handle_pdf_message" /\ t.pc = "download"
            /\ Spliced(i, replace_first_page_with_banner(f1, orig_file, path, out_file, save_ok))
            /\ UNCHANGED <<awaiting, nupd, credit, fitvars>>

\* Line 204: send_document uploads the file found at out_file.
DocumentSent ==
    \E i \in Slots :
        LET t == tasks[i]
        IN  /\ t.h = "handle_pdf_message" /\ t.pc = "send"
            /\ sent' = Document(t.chat, fs[tmp_out(t.mid)])
            /\ tasks' = [tasks EXCEPT ![i] = Idle]
            /\ UNCHANGED <<awaiting, fs, nupd, credit, fitvars>>

\* Banners persist across runs: a chat may start with one saved earlier.
BotInit ==
    /\ awaiting = {}
    /\ \E b \in [Chats -> {NoFile, ImgFile(save_png(ImgWide)), ImgFile(save_png(ImgThin))}] :
          fs = [p \in Paths |->
                  IF \E c \in Chats : p = banner_path_for_chat(c)
                  THEN b[CHOOSE c \in Chats : p = banner_path_for_chat(c)]
                  ELSE NoFile]
    /\ tasks = [i \in Slots |-> Idle]
    /\ nupd = 0
    /\ sent = NoSent
    /\ credit = [c \in Chats |-> 0]

\* The bot at rest, for the specification of the render alone.
BotOff ==
    /\ awaiting = {}
    /\ fs = [p \in Paths |-> NoFile]
    /\ tasks = [i \in Slots |-> Idle]
    /\ nupd = 0
    /\ sent = NoSent
    /\ credit = [c \in Chats |-> 0]

\* The render variables at rest, for the specification of the bot.
FitOff ==
    /\ fbox = <<0, 0, 0, 0>>
    /\ fimg = <<1, 1>>
    /\ fpc = "off"
    /\ fsize = <<0, 0>>
    /\ ffit = NoFit
    /\ ferr = ""

Init == BotInit /\ FitOff

Next == Deliver \/ ImageDownloaded \/ PdfDownloaded \/ DocumentSent

Spec == Init /\ [][Next]_vars

\* PdfDownloaded is enabled exactly when an invocation awaits its PDF download.
PdfDownloadPending ==
    \E i \in Slots : tasks[i].h = "handle_pdf_message" /\ tasks[i].pc = "download"

\* The steps of PdfDownloaded, told by what they do to the invocation: it
\* leaves the download's await.
PdfDownloadEnds ==
    \E i \in Slots :
        /\ tasks[i].h = "handle_pdf_message" /\ tasks[i].pc = "download"
        /\ tasks'[i] # tasks[i]

\* A download or an upload that has started ends, and the event loop then
\* resumes the handler awaiting it: weak fairness of the three resumptions.
\* That of PdfDownloaded is written out, WF_vars(A) being
\* []<>~ENABLED <<A>>_vars \/ []<><<A>>_vars, with its enabling condition
\* and its steps named above.
LiveSpec ==
    /\ Spec
    /\ WF_vars(ImageDownloaded)
    /\ []<>~PdfDownloadPending \/ []<><<PdfDownloadEnds>>_vars
    /\ WF_vars(DocumentSent)

FitInit ==
    /\ fbox \in Boxes
    /\ fimg \in ImgDims \X ImgDims
    /\ fpc = "open"
    /\ fsize = <<0, 0>>
    /\ ffit = NoFit
    /\ ferr = ""
    /\ BotOff

\* Lines 157-161.
ExtractStep ==
    /\ fpc = "open"
    /\ fsize' = first_page_size(fbox)
    /\ fpc' = "sized"
    /\ UNCHANGED <<fbox, fimg, ffit, ferr, botvars>>

\* Lines 134-140.
FitStep ==
    /\ fpc = "sized"
    /\ ffit' = fit(fimg[1], fimg[2], fsize[1], fsize[2])
    /\ fpc' = "fitted"
    /\ UNCHANGED <<fbox, fimg, fsize, ferr, botvars>>

\* Lines 142-148.
ResizeStep ==
    /\ fpc = "fitted"
    /\ IF resize_ok(ffit)
       THEN fpc' = "drawn" /\ ferr' = ""
       ELSE fpc' = "error" /\ ferr' = "ValueError"
    /\ UNCHANGED <<fbox, fimg, fsize, ffit, botvars>>

FitNext == ExtractStep \/ FitStep \/ ResizeStep

FitSpec == FitInit /\ [][FitNext]_vars

(***************************************************************************)
(* Claims.                                                                 *)
(***************************************************************************)

\* Slot i resumes handle_pdf_message after its download in this step.
SpliceStep(i) ==
    /\ tasks[i].h = "handle_pdf_message"
    /\ tasks[i].pc = "download"
    /\ tasks'[i] # tasks[i]

\* ... and replace_first_page_with_banner returned normally.
SpliceDone(i) == SpliceStep(i) /\ tasks'[i].pc = "send"

\* ... and replace_first_page_with_banner raised.
SpliceFailed(i) == SpliceStep(i) /\ tasks'[i].pc = "idle"

\* The document of the message slot i processes.
Source(i) == Inbox(tasks[i].chat, tasks[i].mid).file.pages

InFlightPdf(i) ==
    tasks[i].h = "handle_pdf_message" /\ tasks[i].pc \in {"download", "send"}

\* The temporary artifacts of the invocation in slot i.
Artifacts(i) ==
    {tmp_orig(tasks[i].mid),
     tmp_out(tasks[i].mid),
     banner_pdf_tmp(banner_path_for_chat(tasks[i].chat))}

\* C1: the document written by a splice of a source with N >= 1 pages is one
\* replacement page (drawn from the chat's banner) followed by source pages
\* 2..N, unchanged and in order; it has exactly N pages.
C1_OutputPages ==
    [][\A i \in Slots :
         SpliceDone(i) =>
           LET out == fs'[tmp_out(tasks[i].mid)]
               N   == Len(Source(i))
           IN  /\ N >= 1
               /\ out.kind = "pdf"
               /\ Len(out.pages) = N
               /\ out.pages[1].doc = 0
               /\ out.pages[1].img = fs[banner_path_for_chat(tasks[i].chat)].img
               /\ \A k \in 2..N : out.pages[k] = Source(i)[k]]_vars

\* C1 witness: a splice of the three-page document has written its output.
C1_Witness ==
    \E i \in Slots :
        /\ tasks[i].pc = "send"
        /\ Len(fs[tmp_out(tasks[i].mid)].pages) = 3
        /\ fs[tmp_out(tasks[i].mid)].pages[1].doc = 0
        /\ fs[tmp_out(tasks[i].mid)].pages[2] = DocA[2]
        /\ fs[tmp_out(tasks[i].mid)].pages[3] = DocA[3]

\* C2: no in-flight splice invocation has one of its temporary artifacts
\* (downloaded original, one-page banner PDF, output) written by another
\* in-flight invocation.
C2_NoSharedArtifacts ==
    [][\A i \in Slots, j \in Slots :
         (i # j /\ SpliceStep(i) /\ InFlightPdf(j)) =>
             \A p \in Artifacts(j) : fs'[p] = fs[p]]_vars

\* C3: when replace_first_page_with_banner fails, no file exists at the
\* output path.
C3_NoOutputOnFailure ==
    [][\A i \in Slots :
         SpliceFailed(i) => fs'[tmp_out(tasks[i].mid)].kind = "none"]_vars

\* C4: on a source of zero pages the splice fails with the empty-document
\* error, and neither the banner temp PDF nor the output file is written.
C4_EmptyDocument ==
    [][\A i \in Slots :
         (SpliceStep(i) /\ Source(i) = <<>> /\ Inbox(tasks[i].chat, tasks[i].mid).file.kind = "pdf") =>
             /\ SpliceFailed(i)
             /\ sent' = ReplyErr(tasks[i].chat, "Failed to process PDF", "PDF has no pages")
             /\ fs'[banner_pdf_tmp(banner_path_for_chat(tasks[i].chat))]
                   = fs[banner_pdf_tmp(banner_path_for_chat(tasks[i].chat))]
             /\ fs'[tmp_out(tasks[i].mid)] = fs[tmp_out(tasks[i].mid)]]_vars

\* C4 witness: a splice of the empty document has failed.
C4_Witness ==
    /\ sent = ReplyErr(1, "Failed to process PDF", "PDF has no pages")
    /\ fs[tmp_orig(3)] = PdfFile(DocEmpty)

\* C5: a splice, successful or not, leaves the downloaded original and the
\* chat's saved banner image as they were, and writes its output elsewhere.
C5_SourceUntouched ==
    [][\A i \in Slots :
         SpliceStep(i) =>
             /\ fs'[tmp_orig(tasks[i].mid)] = Inbox(tasks[i].chat, tasks[i].mid).file
             /\ fs'[banner_path_for_chat(tasks[i].chat)] = fs[banner_path_for_chat(tasks[i].chat)]
             /\ tmp_out(tasks[i].mid) # tmp_orig(tasks[i].mid)]_vars

\* C5 witness: after a successful splice the original is still the document
\* of the message, beside a different output.
C5_Witness ==
    \E i \in Slots :
        /\ tasks[i].pc = "send"
        /\ fs[tmp_orig(tasks[i].mid)] = PdfFile(DocA)
        /\ fs[tmp_out(tasks[i].mid)].kind = "pdf"
        /\ fs[tmp_out(tasks[i].mid)] # fs[tmp_orig(tasks[i].mid)]

FitDone == fpc \in {"fitted", "drawn", "error"}

PositiveDims == fimg[1] > 0 /\ fimg[2] > 0 /\ fsize[1] > 0 /\ fsize[2] > 0

\* 2^-50 * |d|
Tol(d) == DScale(DAbs(d), -50)

\* a <= b + 2^-50 * |scale|
LeqTol(a, b, scale) == DLeq(a, DAdd(b, Tol(scale)))

\* |a - b| <= 2^-50 * |scale|
Near(a, b, scale) == DLeq(DAbs(DSub(a, b)), Tol(scale))

\* C6 as stated: the draw rectangle lies inside the target and the aspect
\* ratio is kept, exactly.
C6_ExactFit ==
    (FitDone /\ PositiveDims) =>
        /\ DLeq(ffit.new_w, DInt(fsize[1]))
        /\ DLeq(ffit.new_h, DInt(fsize[2]))
        /\ DLeq(DZero, ffit.x)
        /\ DLeq(DZero, ffit.y)
        /\ DLeq(DAdd(ffit.x, ffit.new_w), DInt(fsize[1]))
        /\ DLeq(DAdd(ffit.y, ffit.new_h), DInt(fsize[2]))
        /\ DEq(DMulInt(ffit.new_w, fimg[2]), DMulInt(ffit.new_h, fimg[1]))

\* C6 amended: for positive image and target sizes the draw rectangle lies
\* inside the target and the aspect ratio is kept, each within a relative
\* rounding tolerance of 2^-50.
C6_FitWithinTolerance ==
    (FitDone /\ PositiveDims) =>
        /\ LeqTol(ffit.new_w, DInt(fsize[1]), DInt(fsize[1]))
        /\ LeqTol(ffit.new_h, DInt(fsize[2]), DInt(fsize[2]))
        /\ LeqTol(DZero, ffit.x, DInt(fsize[1]))
        /\ LeqTol(DZero, ffit.y, DInt(fsize[2]))
        /\ LeqTol(DAdd(ffit.x, ffit.new_w), DInt(fsize[1]), DInt(fsize[1]))
        /\ LeqTol(DAdd(ffit.y, ffit.new_h), DInt(fsize[2]), DInt(fsize[2]))
        /\ Near(DMulInt(ffit.new_w, fimg[2]), DMulInt(ffit.new_h, fimg[1]),
                DMulInt(ffit.new_w, fimg[2]))

\* C6 witness: a fit whose rounded draw height exceeds the target height.
C6_Witness ==
    /\ fpc = "fitted"
    /\ PositiveDims
    /\ ~DLeq(ffit.new_h, DInt(fsize[2]))

IsExample == fimg = <<1000, 500>> /\ fsize = <<612, 792>>

ExampleFit ==
    /\ ffit.new_w = FInt(612)
    /\ ffit.new_h = FInt(306)
    /\ ffit.x = FZero
    /\ ffit.y = FInt(243)

\* C7 as stated: one draw dimension equals its target, the image is centred,
\* and an image of the target's aspect fills it with zero offsets, exactly.
C7_ExactCentredFit ==
    (FitDone /\ PositiveDims) =>
        /\ DEq(ffit.new_w, DInt(fsize[1])) \/ DEq(ffit.new_h, DInt(fsize[2]))
        /\ DEq(DAdd(DScale(ffit.x, 1), ffit.new_w), DInt(fsize[1]))
        /\ DEq(DAdd(DScale(ffit.y, 1), ffit.new_h), DInt(fsize[2]))
        /\ (fimg[1] * fsize[2] = fimg[2] * fsize[1]) =>
               /\ ffit.x = FZero
               /\ ffit.y = FZero
               /\ ffit.new_w = FInt(fsize[1])
               /\ ffit.new_h = FInt(fsize[2])
        /\ IsExample => ExampleFit

\* C7 amended: the same within a relative rounding tolerance of 2^-50 of the
\* target size; the example 1000x500 into 612x792 holds exactly.
C7_CentredFitWithinTolerance ==
    (FitDone /\ PositiveDims) =>
        /\ \/ Near(ffit.new_w, DInt(fsize[1]), DInt(fsize[1]))
           \/ Near(ffit.new_h, DInt(fsize[2]), DInt(fsize[2]))
        /\ Near(DAdd(DScale(ffit.x, 1), ffit.new_w), DInt(fsize[1]), DInt(fsize[1]))
        /\ Near(DAdd(DScale(ffit.y, 1), ffit.new_h), DInt(fsize[2]), DInt(fsize[2]))
        /\ (fimg[1] * fsize[2] = fimg[2] * fsize[1]) =>
               /\ Near(ffit.x, DZero, DInt(fsize[1]))
               /\ Near(ffit.y, DZero, DInt(fsize[2]))
               /\ Near(ffit.new_w, DInt(fsize[1]), DInt(fsize[1]))
               /\ Near(ffit.new_h, DInt(fsize[2]), DInt(fsize[2]))
        /\ IsExample => ExampleFit

\* C7 witness: the example has been fitted, with the values of the scenario.
C7_Witness == fpc = "fitted" /\ IsExample /\ ExampleFit

\* C8: with a dimension that is zero or negative the fit fails with an
\* invalid-dimension error and computes no placement.
C8_RejectsInvalid ==
    (FitDone /\ ~PositiveDims) =>
        /\ fpc = "error"
        /\ ferr = "InvalidDimension"
        /\ ffit = NoFit

\* C9: the extracted size is (|urx - llx|, |ury - lly|), never negative, and
\* the same for the box with its corners swapped.
C9_SizeOfBox ==
    (fpc # "open") =>
        /\ fsize[1] >= 0 /\ fsize[2] >= 0
        /\ fsize[1] \in {fbox[3] - fbox[1], fbox[1] - fbox[3]}
        /\ fsize[2] \in {fbox[4] - fbox[2], fbox[2] - fbox[4]}
        /\ first_page_size(<<fbox[3], fbox[4], fbox[1], fbox[2]>>) = fsize
        /\ (fbox \in {<<0, 0, 595, 842>>, <<595, 842, 0, 0>>}) => fsize = <<595, 842>>

\* C9 witness: the reversed box has been measured.
C9_Witness == fpc = "sized" /\ fbox = <<595, 842, 0, 0>> /\ fsize = <<595, 842>>

\* C10: the first page of the document a splice writes has the box
\* (0, 0, W, H), W and H being the size of the first page of the document of
\* that same invocation.
C10_BannerPageBox ==
    [][\A i \in Slots :
         SpliceDone(i) =>
             LET box == Source(i)[1].box
                 W   == IF box[3] >= box[1] THEN box[3] - box[1] ELSE box[1] - box[3]
                 H   == IF box[4] >= box[2] THEN box[4] - box[2] ELSE box[2] - box[4]
             IN  fs'[tmp_out(tasks[i].mid)].pages[1].box = <<0, 0, W, H>>]_vars

\* C10 witness: a splice of the document with the reversed box has written
\* a first page of its size.
C10_Witness ==
    \E i \in Slots :
        /\ tasks[i].pc = "send"
        /\ tasks[i].chat = 2
        /\ fs[tmp_out(tasks[i].mid)].kind = "pdf"
        /\ fs[tmp_out(tasks[i].mid)].pages[1].box = <<0, 0, 595, 842>>

\* The step is the dispatch of the update u.
Delivered(u) == nupd' = nupd + 1 /\ Handle(u)

IsPdf(c, m) == Inbox(c, m).kind = "document" /\ Inbox(c, m).mime = "application/pdf"

\* C11: a PDF document message sent in a chat that has a saved banner starts
\* handle_pdf_message on that message, without /process.
C11_PdfMessageSpliced ==
    [][\A c \in Chats, m \in MsgIds :
         (IsPdf(c, m) /\ exists(banner_path_for_chat(c)) /\ Delivered(Media(c, m))) =>
             \E i \in Slots :
                 /\ tasks[i] = Idle
                 /\ tasks'[i] = Task("handle_pdf_message", c, m, "download")]_vars

\* Slot i resumes receive_image after its download in this step.
ImageStep(i) ==
    /\ tasks[i].h = "receive_image"
    /\ tasks[i].pc = "download"
    /\ tasks'[i] # tasks[i]

IsImageMsg(c, m) ==
    \/ Inbox(c, m).kind = "photo"
    \/ Inbox(c, m).kind = "document" /\ Inbox(c, m).mime \in {"image/png", "image/jpeg"}

\* Slot i is free before the step and holds the new invocation t after it.
Started(i, t) == tasks[i] = Idle /\ tasks'[i] = t

\* C12: in a chat awaiting a banner, a photo or image document starts the
\* save; when the download ends and the image decodes it is stored as the
\* chat's banner (so /status reports it and PDF processing is not refused for
\* want of a banner) and the flag is cleared; the flag is cleared also when
\* the save fails, and stays set when a non-image document is received.
C12_BannerSaved ==
    [][/\ \A i \in Slots :
            ImageStep(i) =>
                LET c      == tasks[i].chat
                    upload == Inbox(c, tasks[i].mid).file
                    banner == fs'[banner_path_for_chat(c)]
                IN  /\ c \notin awaiting'
                    /\ tasks'[i] = Idle
                    /\ IF upload.kind = "img"
                       THEN /\ banner.kind = "img"
                            /\ banner.img.id = upload.img.id
                            /\ banner.img.w = upload.img.w
                            /\ banner.img.h = upload.img.h
                            /\ banner.img.fmt = "PNG"
                            /\ sent' = Reply(c, "Banner saved for this chat.")
                       ELSE /\ banner = fs[banner_path_for_chat(c)]
                            /\ sent'.text = "Failed to save banner"
       /\ \A c \in awaiting, m \in MsgIds :
            Delivered(Media(c, m)) =>
                IF IsImageMsg(c, m)
                THEN /\ \E i \in Slots : Started(i, Task("receive_image", c, m, "download"))
                     /\ awaiting' = awaiting
                ELSE /\ awaiting' = awaiting
                     /\ sent' = Reply(c, "Please send a PNG or JPG image.")
                     /\ UNCHANGED <<fs, tasks>>
       /\ \A c \in Chats :
            exists(banner_path_for_chat(c)) =>
                /\ Delivered(Command(c, "status")) =>
                       sent' = Reply(c, "Banner is set for this chat.")
                /\ \A m \in MsgIds :
                       Delivered(ProcessReply(c, m)) =>
                           \/ \E i \in Slots : Started(i, Task("handle_pdf_message", c, m, "download"))
                           \/ sent'.text = "Failed to process PDF"]_vars

\* C12 witness: a banner has just been saved in chat 1 and the flag is clear.
C12_Witness ==
    /\ sent = Reply(1, "Banner saved for this chat.")
    /\ fs[banner_path_for_chat(1)].kind = "img"
    /\ fs[tmp_banner(2)] = ImgFile(ImgWide)
    /\ 1 \notin awaiting

NoBannerReply(c) == Reply(c, "No banner set for this chat.")

\* Slot i ends its upload in this step.
SendStep(i) ==
    /\ tasks[i].h = "handle_pdf_message"
    /\ tasks[i].pc = "send"
    /\ tasks'[i] # tasks[i]

\* /removebanner on a saved banner removes it and says so.
Removal ==
    \A c \in Chats :
        (exists(banner_path_for_chat(c)) /\ Delivered(Command(c, "removebanner"))) =>
            /\ sent' = Reply(c, "Banner removed for this chat.")
            /\ fs'[banner_path_for_chat(c)] = NoFile

\* A chat without a banner gets one only by the end of an image save of that chat.
OnlySaveRestores ==
    \A c \in Chats :
        (~exists(banner_path_for_chat(c)) /\ fs'[banner_path_for_chat(c)] # NoFile) =>
            \E i \in Slots : ImageStep(i) /\ tasks[i].chat = c

\* In a chat without a banner /status reports none and a processing request
\* is refused with the no-banner reply, starting nothing and writing nothing.
RefusedWithoutBanner ==
    \A c \in Chats :
        ~exists(banner_path_for_chat(c)) =>
            /\ Delivered(Command(c, "status")) =>
                   sent' = Reply(c, "No banner set. Use /setbanner to upload one.")
            /\ \A m \in MsgIds :
                   Delivered(ProcessReply(c, m)) =>
                       sent' = NoBannerReply(c) /\ UNCHANGED <<awaiting, fs, tasks>>

\* C13 as stated: after the removal the chat has no banner until a later
\* save, /status reports none, and every PDF processing in the chat, one in
\* flight at the removal included, is refused with the no-banner reply and
\* produces no output.
C13_AllRefusedAfterRemoval ==
    [][/\ Removal
       /\ OnlySaveRestores
       /\ RefusedWithoutBanner
       /\ \A i \in Slots :
            ((SpliceStep(i) \/ SendStep(i)) /\ ~exists(banner_path_for_chat(tasks[i].chat))) =>
                /\ sent' = NoBannerReply(tasks[i].chat)
                /\ fs'[tmp_out(tasks[i].mid)] = fs[tmp_out(tasks[i].mid)]]_vars

\* C13 amended: after the removal the chat has no banner until an image save
\* of that chat ends; meanwhile /status reports none and every processing
\* request dispatched is refused with the no-banner reply and writes
\* nothing. An invocation in flight at the removal is not refused: one still
\* downloading fails with 'Failed to process PDF' and writes no output, one
\* already uploading sends the document it spliced before the removal.
C13_RefusedAfterRemoval ==
    [][/\ Removal
       /\ OnlySaveRestores
       /\ RefusedWithoutBanner
       /\ \A i \in Slots :
            (InFlightPdf(i) /\ ~exists(banner_path_for_chat(tasks[i].chat))) =>
                /\ SpliceStep(i) =>
                       /\ tasks'[i] = Idle
                       /\ sent'.chat = tasks[i].chat
                       /\ sent'.text = "Failed to process PDF"
                       /\ fs'[tmp_out(tasks[i].mid)] = fs[tmp_out(tasks[i].mid)]
                       /\ fs'[banner_pdf_tmp(banner_path_for_chat(tasks[i].chat))]
                             = fs[banner_pdf_tmp(banner_path_for_chat(tasks[i].chat))]
                /\ SendStep(i) =>
                       /\ tasks'[i] = Idle
                       /\ sent' = Document(tasks[i].chat, fs[tmp_out(tasks[i].mid)])]_vars

\* C13 witness: the banner of chat 1 was removed while a processing was
\* downloading, which has then failed.
C13_Witness ==
    /\ ~exists(banner_path_for_chat(1))
    /\ sent = ReplyErr(1, "Failed to process PDF", "cannot open image")
    /\ nupd = 2

\* C14: for positive image and target sizes the render completes with a
\* one-page document: the truncated resample dimensions int(new_w) and
\* int(new_h) are both at least 1 and the resize does not fail.
C14_RenderTotal ==
    (PositiveDims /\ fpc \in {"drawn", "error"}) =>
        /\ resize_dims(ffit)[1] >= 1
        /\ resize_dims(ffit)[2] >= 1
        /\ fpc = "drawn"
        /\ ferr = ""

C16_OneSavePerSetbanner == \A c \in Chats : credit[c] >= 0

\* C17: chats are isolated. A banner written for a chat is an image of a
\* message of that chat, and a document sent to a chat is a banner page
\* followed by pages 2..N of the message processed in that chat.
C17_ChatsIsolated ==
    [][/\ \A c \in Chats :
            (fs'[banner_path_for_chat(c)] # fs[banner_path_for_chat(c)]
             /\ fs'[banner_path_for_chat(c)] # NoFile) =>
                \E m \in MsgIds :
                    /\ Inbox(c, m).file.kind = "img"
                    /\ fs'[banner_path_for_chat(c)].img.id = Inbox(c, m).file.img.id
       /\ \A i \in Slots :
            (SendStep(i) /\ sent'.file.kind = "pdf") =>
                /\ sent'.chat = tasks[i].chat
                /\ Len(sent'.file.pages) = Len(Source(i))
                /\ sent'.file.pages[1].doc = 0
                /\ \A k \in 2..Len(Source(i)) : sent'.file.pages[k] = Source(i)[k]]_vars

FailedReply(c) == sent'.kind = "reply" /\ sent'.chat = c /\ sent'.text = "Failed to process PDF"

\* The steps of one invocation of handle_pdf_message send one message in
\* all, at the step that ends it.
OneOutcome ==
    /\ \A c \in Chats, m \in MsgIds :
         Delivered(ProcessReply(c, m)) =>
             \/ sent' = NoBannerReply(c) /\ tasks' = tasks
             \/ FailedReply(c) /\ tasks' = tasks
             \/ sent' = sent /\ \E i \in Slots : Started(i, Task("handle_pdf_message", c, m, "download"))
    /\ \A i \in Slots :
         /\ SpliceStep(i) =>
                \/ tasks'[i] = [tasks[i] EXCEPT !.pc = "send"] /\ sent' = sent
                \/ tasks'[i] = Idle /\ FailedReply(tasks[i].chat)
         /\ SendStep(i) =>
                /\ tasks'[i] = Idle
                /\ sent'.kind = "document"
                /\ sent'.chat = tasks[i].chat

\* C18: every invocation of handle_pdf_message ends, with exactly one of the
\* no-banner reply, the edited document, or a 'Failed to process PDF' reply,
\* whatever other handlers do to the banner while it awaits its download.
\* An invocation holds its slot until it ends, so it ends if and only if its
\* slot is again and again without a handle_pdf_message invocation.
C18_OneOutcomeEventually ==
    /\ [][OneOutcome]_vars
    /\ \A i \in Slots : []<>(tasks[i].h # "handle_pdf_message")

\* C18 witness: the banner of chat 2 was removed between the check and the
\* splice of an invocation, which has ended with the failure reply.
C18_Witness ==
    /\ sent = ReplyErr(2, "Failed to process PDF", "cannot open image")
    /\ ~exists(banner_path_for_chat(2))
    /\ exists(tmp_orig(1))
    /\ \A i \in Slots : tasks[i] = Idle

====
